---- MODULE Spec2Model ----
(***************************************************************************)
(* Model of the candles WebSocket back end: the room broadcaster           *)
(* (services/broadcaster.ts), the candle aggregator (websocket/            *)
(* aggregator.ts), the history service (services/history.ts), the client   *)
(* message handlers (api/handlers/candles.ts), the connection handlers     *)
(* (api/handlers/index.ts) and the Redis ingest and heartbeat               *)
(* (websocket.ts).                                                         *)
(*                                                                         *)
(* Node runs every callback to completion, so each action below is one     *)
(* callback, or the part of an async function between two awaits.          *)
(* Message events are delivered only while the transport is OPEN.          *)
(***************************************************************************)
EXTENDS Bags, FiniteSets, Integers, Sequences, TLC

\* ------------------------------------------------------------------ bounds
\* Stands for MAX_1M_CANDLES = 1440 (aggregator.ts), scaled down so that the
\* eviction of the head is reached.
MAX_1M_CANDLES == 2
\* Date.now() runs from 0 to the scenario's maxNow (ms); at most maxPending
\* subscribe handlers are suspended in an await at once.
RoomsMaxNow == 1000
RoomsMaxPending == 1
StreamMaxNow == 2000
StreamMaxPending == 1
\* The counters of initial messages saturate at MaxInitials.
MaxInitials == 2
\* The counters of heartbeat ticks saturate at MaxSilent.
MaxSilent == 2
\* A whale-alerts frame names at most MaxChannels channels, and at most
\* MaxWhalePending whale-alerts handlers are suspended in an await at once.
MaxChannels == 2
MaxWhalePending == 2

\* ------------------------------------------------------- program constants
BROADCAST_INTERVAL_MS == 1000

\* The clock advances in steps of one broadcast period.
TimeStep == BROADCAST_INTERVAL_MS

Sessions == {"c1", "c2"}

\* The clients of the whale alerts endpoint.
WhaleClients == {"w1", "w2"}

\* Frontend channel -> Redis channel.
channelMap ==
  [channel \in {"bitcoin.all", "bitcoin.large", "bitcoin.watched"} |->
     CASE channel = "bitcoin.all" -> "whale:bitcoin:all"
       [] channel = "bitcoin.large" -> "whale:bitcoin:large"
       [] OTHER -> "whale:bitcoin:watched"]

\* The channel names the frames carry: two of the map and one that is not.
WhaleChannels == {"bitcoin.all", "bitcoin.large", "bitcoin.none"}

\* message.channels of a subscribe or unsubscribe frame.
WhaleRequests == UNION {[1..n -> WhaleChannels] : n \in 1..MaxChannels}

VALID_INTERVALS == {"1m", "5m", "15m", "1h", "4h", "1D", "1W"}

INTERVAL_TO_MS ==
  [i \in VALID_INTERVALS |->
     CASE i = "1m"  -> 60 * 1000
       [] i = "5m"  -> 5 * 60 * 1000
       [] i = "15m" -> 15 * 60 * 1000
       [] i = "1h"  -> 60 * 60 * 1000
       [] i = "4h"  -> 4 * 60 * 60 * 1000
       [] i = "1D"  -> 24 * 60 * 60 * 1000
       [] i = "1W"  -> 7 * 24 * 60 * 60 * 1000]

\* ------------------------------------------------------------------ inputs
\* What a client puts in the symbol and interval fields of a message.
MsgSymbols == {"BTC/USDT", "ETH/USDT"}
MsgIntervals == {"1m", "5m", "10m"}

\* A field the frame does not have: `${undefined}` in a room key.
Undefined == "undefined"

\* The initialBars field of a subscribe: omitted, or given with a value.
Omitted == [given |-> FALSE, value |-> 0]
Given(n) == [given |-> TRUE, value |-> n]

\* const { symbol, interval, initialBars = 100 } = message
DefaultInitialBars == 100

\* The limit of the 1m fetch that fills an empty aggregator.
WarmupLimit == 1440
historyLimit(initialBars) ==
  IF initialBars.given THEN initialBars.value ELSE DefaultInitialBars

\* Bar times of the candles the upstream channel and the store deliver (ms).
CandleTimes == {0, 60000}

\* quoteVolume is optional on a Candle: NoQuoteVolume stands for undefined.
NoQuoteVolume == -1

Candle(t, c) ==
  [time |-> t, open |-> 1, high |-> c, low |-> 1, close |-> c,
   volume |-> 1, quoteVolume |-> NoQuoteVolume]

\* The candles the upstream channel delivers, with bar times in `times`.
UpstreamCandles(times) == {Candle(t, 1) : t \in times}

\* currentCandle: null
NoCandle ==
  [time |-> -1, open |-> 0, high |-> 0, low |-> 0, close |-> 0,
   volume |-> 0, quoteVolume |-> NoQuoteVolume]

\* The rows of one getCandlesticks query: one row per time bucket, ORDER BY
\* time ASC.
StoreResults(times) ==
  {<<>>} \cup {<<Candle(t, 1)>> : t \in times}
         \cup {<<Candle(t, 1), Candle(u, 1)>> : <<t, u>> \in {x \in times \X times : x[1] < x[2]}}

\* ----------------------------------------------------------------- helpers
Min(a, b) == IF a < b THEN a ELSE b

RECURSIVE SeqSum(_)
SeqSum(s) == IF s = <<>> THEN 0 ELSE Head(s) + SeqSum(Tail(s))

RECURSIVE SeqMax(_)
SeqMax(s) ==
  IF Len(s) = 1 THEN s[1]
  ELSE LET m == SeqMax(Tail(s)) IN IF s[1] > m THEN s[1] ELSE m

RECURSIVE SeqMin(_)
SeqMin(s) ==
  IF Len(s) = 1 THEN s[1]
  ELSE LET m == SeqMin(Tail(s)) IN IF s[1] < m THEN s[1] ELSE m

\* Insert c in a sequence sorted by time, after the candles of the same time.
RECURSIVE InsertByTime(_, _)
InsertByTime(s, c) ==
  IF s = <<>> THEN <<c>>
  ELSE IF c.time < s[1].time THEN <<c>> \o s
  ELSE <<s[1]>> \o InsertByTime(Tail(s), c)

\* Array.prototype.sort by time: stable.
RECURSIVE SortByTime(_)
SortByTime(s) ==
  IF s = <<>> THEN <<>>
  ELSE InsertByTime(SortByTime(SubSeq(s, 1, Len(s) - 1)), s[Len(s)])

\* -------------------------------------------------------------- aggregator
\* processOneMinuteCandle without `candles.shift()`.
processOneMinuteCandleNoShift(w, candle) ==
  IF Len(w) > 0 /\ w[Len(w)].time = candle.time
  THEN [w EXCEPT ![Len(w)] = candle]
  ELSE Append(w, candle)

\* processOneMinuteCandle without the update of the in-progress candle.
processOneMinuteCandleAlwaysPush(w, candle) ==
  LET pushed == Append(w, candle)
  IN IF Len(pushed) > MAX_1M_CANDLES THEN Tail(pushed) ELSE pushed

\* processOneMinuteCandle with candles.pop() for candles.shift().
processOneMinuteCandlePop(w, candle) ==
  IF Len(w) > 0 /\ w[Len(w)].time = candle.time
  THEN [w EXCEPT ![Len(w)] = candle]
  ELSE LET pushed == Append(w, candle)
       IN IF Len(pushed) > MAX_1M_CANDLES
          THEN SubSeq(pushed, 1, Len(pushed) - 1) ELSE pushed

\* CandleAggregator.processOneMinuteCandle on the window w of one symbol.
processOneMinuteCandle(w, candle) ==
  IF Len(w) > 0 /\ w[Len(w)].time = candle.time
  THEN [w EXCEPT ![Len(w)] = candle]
  ELSE LET pushed == Append(w, candle)
       IN IF Len(pushed) > MAX_1M_CANDLES THEN Tail(pushed) ELSE pushed

\* initializeCandles keeping the head of the sorted input: slice(0, limit).
initializeCandlesHead(candles) ==
  LET sortedCandles == SortByTime(candles)
      limit == Min(Len(sortedCandles), MAX_1M_CANDLES)
  IN SubSeq(sortedCandles, 1, limit)

\* CandleAggregator.initializeCandles: the new window.
initializeCandles(candles) ==
  LET sortedCandles == SortByTime(candles)
      limit == Min(Len(sortedCandles), MAX_1M_CANDLES)
  IN SubSeq(sortedCandles, Len(sortedCandles) - limit + 1, Len(sortedCandles))

\* getIntervalStart with Math.ceil for Math.floor.
getIntervalStartCeil(timestamp, intervalMs) ==
  ((timestamp + intervalMs - 1) \div intervalMs) * intervalMs

\* CandleAggregator.getIntervalStart
getIntervalStart(timestamp, intervalMs) == (timestamp \div intervalMs) * intervalMs

\* The filter with `<=` for the end of the bar.
intervalCandlesInclusive(w, startMs, intervalMs) ==
  SelectSeq(w, LAMBDA c : c.time >= startMs /\ c.time <= startMs + intervalMs)

\* candles.filter(...): the candles of w with startMs <= time < startMs + intervalMs
RECURSIVE intervalCandles(_, _, _)
intervalCandles(w, startMs, intervalMs) ==
  IF w = <<>> THEN <<>>
  ELSE LET rest == intervalCandles(Tail(w), startMs, intervalMs)
       IN IF w[1].time >= startMs /\ w[1].time < startMs + intervalMs
          THEN <<w[1]>> \o rest ELSE rest

\* c.quoteVolume || 0
QuoteVolumeOrZero(c) == IF c.quoteVolume = NoQuoteVolume THEN 0 ELSE c.quoteVolume

\* aggregateCandles without the sort by time.
aggregateCandlesUnsorted(candles, startTime) ==
  [time |-> startTime,
   open |-> candles[1].open,
   high |-> SeqMax([i \in 1..Len(candles) |-> candles[i].high]),
   low |-> SeqMin([i \in 1..Len(candles) |-> candles[i].low]),
   close |-> candles[Len(candles)].close,
   volume |-> SeqSum([i \in 1..Len(candles) |-> candles[i].volume]),
   quoteVolume |-> SeqSum([i \in 1..Len(candles) |-> QuoteVolumeOrZero(candles[i])])]

\* CandleAggregator.aggregateCandles
aggregateCandles(candles, startTime) ==
  LET sorted == SortByTime(candles)
  IN [time |-> startTime,
      open |-> sorted[1].open,
      high |-> SeqMax([i \in 1..Len(sorted) |-> sorted[i].high]),
      low |-> SeqMin([i \in 1..Len(sorted) |-> sorted[i].low]),
      close |-> sorted[Len(sorted)].close,
      volume |-> SeqSum([i \in 1..Len(sorted) |-> sorted[i].volume]),
      quoteVolume |-> SeqSum([i \in 1..Len(sorted) |-> QuoteVolumeOrZero(sorted[i])])]

\* CandleAggregator.getAggregatedCandle, with Date.now() = nowMs.
getAggregatedCandle(w, interval, nowMs) ==
  IF interval = "1m"
  THEN IF Len(w) > 0 THEN w[Len(w)] ELSE NoCandle
  ELSE IF interval \notin DOMAIN INTERVAL_TO_MS THEN NoCandle
  ELSE IF Len(w) = 0 THEN NoCandle
  ELSE LET intervalMs == INTERVAL_TO_MS[interval]
           currentIntervalStart == getIntervalStart(nowMs, intervalMs)
           inBar == intervalCandles(w, currentIntervalStart, intervalMs)
       IN IF Len(inBar) = 0 THEN NoCandle
          ELSE aggregateCandles(inBar, currentIntervalStart)

\* ------------------------------------------------------------- broadcaster
\* RoomBroadcaster.getRoomKey: `${symbol}:${interval}`
getRoomKey(subscription) == <<subscription.symbol, subscription.interval>>

NewRoom ==
  [clients |-> {}, currentCandle |-> NoCandle, lastBroadcast |-> 0]

\* addClientToRoom without `room.clients.add(client)` for an existing room.
addClientToRoomNoJoin(rs, subs, client, subscription) ==
  LET roomKey == getRoomKey(subscription)
  IN [rooms |-> [k \in DOMAIN rs \cup {roomKey} |->
                   IF k \in DOMAIN rs THEN rs[k]
                   ELSE [NewRoom EXCEPT !.clients = {client}]],
      subscriptions |-> [subs EXCEPT ![client] = @ \cup {roomKey}]]

\* addClientToRoom calling rooms.set(...) whether the room exists or not.
addClientToRoomResets(rs, subs, client, subscription) ==
  LET roomKey == getRoomKey(subscription)
      joined == IF roomKey \in DOMAIN rs THEN rs[roomKey].clients ELSE {}
  IN [rooms |-> [k \in DOMAIN rs \cup {roomKey} |->
                   IF k = roomKey
                   THEN [NewRoom EXCEPT !.clients = joined \cup {client}]
                   ELSE rs[k]],
      subscriptions |-> [subs EXCEPT ![client] = @ \cup {roomKey}]]

\* addClientToRoom without `client.subscriptions.add(roomKey)`.
addClientToRoomNoSubscription(rs, subs, client, subscription) ==
  LET roomKey == getRoomKey(subscription)
      room == IF roomKey \in DOMAIN rs THEN rs[roomKey] ELSE NewRoom
  IN [rooms |-> [k \in DOMAIN rs \cup {roomKey} |->
                   IF k = roomKey
                   THEN [room EXCEPT !.clients = @ \cup {client}]
                   ELSE rs[k]],
      subscriptions |-> subs]

\* RoomBroadcaster.addClientToRoom: the registry and the sessions'
\* subscriptions after the call.
addClientToRoom(rs, subs, client, subscription) ==
  LET roomKey == getRoomKey(subscription)
      room == IF roomKey \in DOMAIN rs THEN rs[roomKey] ELSE NewRoom
  IN [rooms |-> [k \in DOMAIN rs \cup {roomKey} |->
                   IF k = roomKey
                   THEN [room EXCEPT !.clients = @ \cup {client}]
                   ELSE rs[k]],
      subscriptions |-> [subs EXCEPT ![client] = @ \cup {roomKey}]]

\* removeClientFromRoom without `if (room.clients.size === 0) rooms.delete`.
removeClientFromRoomKeepsEmpty(rs, subs, client, subscription) ==
  LET roomKey == getRoomKey(subscription)
  IN IF roomKey \in DOMAIN rs
     THEN [rooms |-> [rs EXCEPT ![roomKey].clients = @ \ {client}],
           subscriptions |-> [subs EXCEPT ![client] = @ \ {roomKey}]]
     ELSE [rooms |-> rs, subscriptions |-> subs]

\* removeClientFromRoom deleting the room without the test of its size.
removeClientFromRoomDropsRoom(rs, subs, client, subscription) ==
  LET roomKey == getRoomKey(subscription)
  IN IF roomKey \in DOMAIN rs
     THEN [rooms |-> [k \in DOMAIN rs \ {roomKey} |-> rs[k]],
           subscriptions |-> [subs EXCEPT ![client] = @ \ {roomKey}]]
     ELSE [rooms |-> rs, subscriptions |-> subs]

\* RoomBroadcaster.removeClientFromRoom
removeClientFromRoom(rs, subs, client, subscription) ==
  LET roomKey == getRoomKey(subscription)
  IN IF roomKey \in DOMAIN rs
     THEN LET left == rs[roomKey].clients \ {client}
              keys == IF left = {} THEN DOMAIN rs \ {roomKey} ELSE DOMAIN rs
          IN [rooms |-> [k \in keys |->
                           IF k = roomKey
                           THEN [rs[k] EXCEPT !.clients = left]
                           ELSE rs[k]],
              subscriptions |-> [subs EXCEPT ![client] = @ \ {roomKey}]]
     ELSE [rooms |-> rs, subscriptions |-> subs]

\* removeClientFromAllRooms deleting every room it visits, whatever its size.
removeClientFromAllRoomsDropsRooms(rs, subs, client) ==
  [rooms |-> [k \in DOMAIN rs \ subs[client] |-> rs[k]],
   subscriptions |-> [subs EXCEPT ![client] = {}]]

\* removeClientFromAllRooms leaving the rooms without the client but
\* without `client.subscriptions.clear()`.
removeClientFromAllRoomsNoClear(rs, subs, client) ==
  LET visited == subs[client] \cap DOMAIN rs
      emptied == {k \in visited : rs[k].clients \ {client} = {}}
  IN [rooms |-> [k \in DOMAIN rs \ emptied |->
                   IF k \in visited
                   THEN [rs[k] EXCEPT !.clients = @ \ {client}]
                   ELSE rs[k]],
      subscriptions |-> subs]

\* RoomBroadcaster.removeClientFromAllRooms: the loop over
\* client.subscriptions, then client.subscriptions.clear().
removeClientFromAllRooms(rs, subs, client) ==
  LET visited == subs[client] \cap DOMAIN rs
      emptied == {k \in visited : rs[k].clients \ {client} = {}}
  IN [rooms |-> [k \in DOMAIN rs \ emptied |->
                   IF k \in visited
                   THEN [rs[k] EXCEPT !.clients = @ \ {client}]
                   ELSE rs[k]],
      subscriptions |-> [subs EXCEPT ![client] = {}]]

\* RoomBroadcaster.updateRoomCandle(symbol), with the aggregator's window w
\* of that symbol.
updateRoomCandle(rs, symbol, w, nowMs) ==
  [k \in DOMAIN rs |->
     IF k[1] = symbol
     THEN LET candle == getAggregatedCandle(w, k[2], nowMs)
          IN IF candle # NoCandle
             THEN [rs[k] EXCEPT !.currentCandle = candle]
             ELSE rs[k]
     ELSE rs[k]]

\* The test of the broadcast loop without `if (!room.currentCandle) continue`.
ShouldBroadcastWithoutCandle(room, nowMs) ==
  /\ room.clients # {}
  /\ ~(nowMs - room.lastBroadcast < BROADCAST_INTERVAL_MS)

\* The test of the broadcast loop: the room is broadcast on this tick.
ShouldBroadcast(room, nowMs) ==
  /\ room.clients # {}
  /\ room.currentCandle # NoCandle
  /\ ~(nowMs - room.lastBroadcast < BROADCAST_INTERVAL_MS)

\* A timer that fires whenever the event loop turns.
TickAnyTime(nowMs, last) == TRUE

\* The interval timer of the broadcast loop fires no earlier than one period
\* after the previous callback (or after setInterval).
TickDue(nowMs, last) == nowMs - last >= BROADCAST_INTERVAL_MS

\* ------------------------------------------------------------------- state
VARIABLES
  rooms,          \* RoomBroadcaster.rooms: room key -> Room
  subscriptions,  \* client.subscriptions of every session
  conn,           \* transport of every session: new, open, errored,
                  \* terminated (CLOSING, close event to come), closed
  isAlive,        \* client.isAlive
  window,         \* CandleAggregator.oneMinuteCandles of BTC/USDT
  now,            \* Date.now()
  lastTick,       \* when the broadcast loop last ran (NoTimer: no broadcaster yet)
  warmup,         \* the startup warmupAggregator: pending, done
  pending,        \* bag of handleSubscribe calls suspended in an await
  scope,          \* the scenario: which sessions connect, the bar times of
                  \* the candles, the bounds, the message types `out` keeps
                  \* and what the history records
  out,            \* the messages the last step sent to clients
  initials,       \* history: initial messages sent per session and room key
  broadcasts,     \* history: per room key, the times of its broadcasts
  lastBar,        \* history: per room key, bar time of the last update sent
                  \* (a sequence of at most one time)
  hbSilent,       \* history: heartbeat ticks that visited the session since
                  \* it connected or since its last pong frame
  probe,          \* history: the last direct call of the aggregator (its
                  \* method, its argument and the window it found)
  ingested,       \* history: per room key, the last candle the upstream
                  \* channel delivered since the room was created (a
                  \* sequence of at most one candle)
  live,           \* history: the bar times of the candles the upstream
                  \* channel delivered
  whaleConn,      \* WhaleAlertsHandler: transport of every client (new,
                  \* open, closed); this.clients holds the open ones
  whaleSubscriptions,    \* client.subscriptions of every whale client
  channelSubscriptions,  \* this.channelSubscriptions: Redis channel -> ids
  redisChannels,  \* the channels this.redisSubscriber is subscribed to
  whalePending,   \* bag of whale handlers suspended in an await
  whaleOut,       \* the messages the last step sent to whale clients
  confirmed       \* history: <<client, Redis channel>> of the 'subscribed'
                  \* confirmations sent and not followed by an unsubscribe
                  \* frame or a disconnect of that client

\* The state of the whale alerts handler.
whaleVars ==
  <<whaleConn, whaleSubscriptions, channelSubscriptions, redisChannels,
    whalePending, whaleOut, confirmed>>

vars ==
  <<rooms, subscriptions, conn, isAlive, window, now, lastTick, warmup,
    pending, scope, out, initials, broadcasts, lastBar, hbSilent, probe,
    ingested, live, whaleConn, whaleSubscriptions, channelSubscriptions,
    redisChannels, whalePending, whaleOut, confirmed>>

history == <<scope, whaleVars, initials, broadcasts, lastBar, hbSilent, probe, ingested, live>>

\* The history that does not follow the rooms.
historyOfSessions == <<scope, whaleVars, initials, broadcasts, lastBar, hbSilent, probe, live>>

SYMBOL == "BTC/USDT"

\* No direct call of the aggregator yet.
NoCall ==
  [op |-> "none", candle |-> NoCandle, candles |-> <<>>, before |-> <<>>,
   interval |-> "", at |-> 0]
NoTimer == -1

\* The room keys a valid subscribe can create.
RoomKeys == {<<SYMBOL, i>> : i \in MsgIntervals \cap VALID_INTERVALS}

\* A message to a client.
Msg(to, type, symbol, interval, text, bar) ==
  [to |-> to, type |-> type, symbol |-> symbol, interval |-> interval,
   text |-> text, bar |-> bar]

\* client.send(...): the message leaves only on an OPEN transport.
Send(to, type, symbol, interval, text, bar) ==
  IF conn[to] = "open" THEN {Msg(to, type, symbol, interval, text, bar)} ELSE {}

\* What `out` keeps of the messages a step sent.
Wire(msgs) == {m \in msgs : m.type \in scope.wire}

\* getRoomBroadcaster(): the first call constructs the broadcaster, whose
\* constructor starts the broadcast loop.
getRoomBroadcaster(last, nowMs) == IF last = NoTimer THEN nowMs ELSE last

\* wss.clients: the sessions whose close event has not fired.
WssClients == {s \in Sessions : conn[s] \in {"open", "errored", "terminated"}}

\* What `ingested` keeps when the rooms become rs: a room that is deleted
\* forgets its candle.
Ingested(rs) == [k \in RoomKeys |-> IF k \in DOMAIN rs THEN ingested[k] ELSE <<>>]

\* What the history records of the upstream candle.
Upstream(candle) ==
  /\ ingested' = IF "ingests" \in scope.observe
                 THEN [k \in RoomKeys |-> IF k \in DOMAIN rooms THEN <<candle>> ELSE <<>>]
                 ELSE ingested
  /\ live' = IF "live" \in scope.observe THEN live \cup {candle.time} ELSE live
  /\ UNCHANGED <<scope, whaleVars, initials, broadcasts, lastBar, hbSilent, probe>>

Start ==
  /\ rooms = [k \in {} |-> NewRoom]
  /\ subscriptions = [s \in Sessions |-> {}]
  /\ conn = [s \in Sessions |-> "new"]
  /\ isAlive = [s \in Sessions |-> FALSE]
  /\ window = <<>>
  /\ now = 0
  /\ lastTick = NoTimer
  /\ warmup = "pending"
  /\ pending = EmptyBag
  /\ out = {}
  /\ initials = [s \in Sessions |-> [k \in RoomKeys |-> 0]]
  /\ broadcasts = [k \in RoomKeys |-> <<>>]
  /\ lastBar = [k \in RoomKeys |-> <<>>]
  /\ hbSilent = [s \in Sessions |-> 0]
  /\ probe = NoCall
  /\ ingested = [k \in RoomKeys |-> <<>>]
  /\ live = {}
  /\ whaleConn = [c \in WhaleClients |-> "new"]
  /\ whaleSubscriptions = [c \in WhaleClients |-> {}]
  /\ channelSubscriptions = [r \in {} |-> {}]
  /\ redisChannels = {}
  /\ whalePending = EmptyBag
  /\ whaleOut = {}
  /\ confirmed = {}

\* ------------------------------------------------------------------ clock
Advance ==
  /\ now + TimeStep <= scope.maxNow
  /\ now' = now + TimeStep
  /\ out' = {}
  /\ UNCHANGED <<rooms, subscriptions, conn, isAlive, window, lastTick, warmup,
                 pending, history>>

\* ---------------------------------------------------------------- startup
\* WebSocketServer.initialize: await warmupAggregator(BTC/USDT); the HTTP
\* server listens only after initialize has returned.
StartupWarmupResolve(rows) ==
  /\ warmup = "pending"
  /\ warmup' = "done"
  /\ window' = initializeCandles(rows)
  /\ out' = {}
  /\ UNCHANGED <<rooms, subscriptions, conn, isAlive, now, lastTick, pending,
                 history>>

StartupWarmupReject ==
  /\ warmup = "pending"
  /\ warmup' = "done"
  /\ out' = {}
  /\ UNCHANGED <<rooms, subscriptions, conn, isAlive, window, now, lastTick,
                 pending, history>>

\* ----------------------------------------------------------------- ingest
\* handleCandleUpdate without updateRoomCandle.
handleCandleUpdateNoRefresh(candle) ==
  /\ window' = processOneMinuteCandle(window, candle)
  /\ lastTick' = getRoomBroadcaster(lastTick, now)
  /\ out' = {}
  /\ Upstream(candle)
  /\ UNCHANGED <<rooms, subscriptions, conn, isAlive, now, warmup, pending>>

\* handleCandleUpdate calling updateRoomCandle before processOneMinuteCandle.
handleCandleUpdateRefreshFirst(candle) ==
  /\ window' = processOneMinuteCandle(window, candle)
  /\ rooms' = updateRoomCandle(rooms, SYMBOL, window, now)
  /\ lastTick' = getRoomBroadcaster(lastTick, now)
  /\ out' = {}
  /\ Upstream(candle)
  /\ UNCHANGED <<subscriptions, conn, isAlive, now, warmup, pending>>

\* WebSocketServer.handleCandleUpdate
handleCandleUpdate(candle) ==
  /\ window' = processOneMinuteCandle(window, candle)
  /\ rooms' = updateRoomCandle(rooms, SYMBOL, window', now)
  /\ lastTick' = getRoomBroadcaster(lastTick, now)
  /\ out' = {}
  /\ Upstream(candle)
  /\ UNCHANGED <<subscriptions, conn, isAlive, now, warmup, pending>>

\* ------------------------------------------------------------ connections
\* candlesWss.on('connection')
Connect(s) ==
  /\ s \in scope.sessions
  /\ warmup = "done"
  /\ conn[s] = "new"
  /\ conn' = [conn EXCEPT ![s] = "open"]
  /\ isAlive' = [isAlive EXCEPT ![s] = TRUE]
  /\ subscriptions' = [subscriptions EXCEPT ![s] = {}]
  /\ out' = {}
  /\ UNCHANGED <<rooms, window, now, lastTick, warmup, pending, history>>

\* client.on('pong')
Pong(s) ==
  /\ conn[s] = "open"
  /\ isAlive' = [isAlive EXCEPT ![s] = TRUE]
  /\ hbSilent' = [hbSilent EXCEPT ![s] = 0]
  /\ out' = {}
  /\ UNCHANGED <<rooms, subscriptions, conn, window, now, lastTick, warmup,
                 pending, scope, whaleVars, initials, broadcasts, lastBar, probe, ingested, live>>

\* client.on('close'): removeClientFromAllRooms(client); ws drops the socket
\* from wss.clients.
CloseEvent(s) ==
  /\ conn[s] \in {"open", "errored", "terminated"}
  /\ conn' = [conn EXCEPT ![s] = "closed"]
  /\ LET r == removeClientFromAllRooms(rooms, subscriptions, s)
     IN /\ rooms' = r.rooms
        /\ subscriptions' = r.subscriptions
  /\ lastTick' = getRoomBroadcaster(lastTick, now)
  /\ out' = {}
  /\ ingested' = Ingested(rooms')
  /\ UNCHANGED <<isAlive, window, now, warmup, pending, historyOfSessions>>

\* client.on('error'): the handler logs; the transport is no longer OPEN and
\* its close event follows.
ErrorEvent(s) ==
  /\ conn[s] = "open"
  /\ conn' = [conn EXCEPT ![s] = "errored"]
  /\ out' = {}
  /\ UNCHANGED <<rooms, subscriptions, isAlive, window, now, lastTick, warmup,
                 pending, history>>

\* --------------------------------------------------------- client messages
\* handleSubscribe with the symbol validated before the interval.
SubscribeSymbolFirst(s, symbol, interval, initialBars) ==
  /\ conn[s] = "open"
  /\ IF symbol # SYMBOL
     THEN /\ out' = Wire(Send(s, "error", symbol, interval, "Invalid symbol", NoCandle))
          /\ UNCHANGED <<rooms, subscriptions, lastTick, pending>>
     ELSE IF interval \notin VALID_INTERVALS
     THEN /\ out' = Wire(Send(s, "error", symbol, interval, "Invalid interval", NoCandle))
          /\ UNCHANGED <<rooms, subscriptions, lastTick, pending>>
     ELSE /\ BagCardinality(pending) < scope.maxPending
          /\ LET r == addClientToRoom(rooms, subscriptions, s,
                                      [symbol |-> symbol, interval |-> interval])
             IN /\ rooms' = r.rooms
                /\ subscriptions' = r.subscriptions
          /\ lastTick' = getRoomBroadcaster(lastTick, now)
          /\ pending' = pending (+) SetToBag({[client |-> s, interval |-> interval,
                                               stage |-> "history", upd |-> FALSE,
                                               limit |-> historyLimit(initialBars)]})
          /\ out' = {}
  /\ UNCHANGED <<conn, isAlive, window, now, warmup, history>>

\* handleClientMessage, case 'subscribe': handleSubscribe up to its await.
\* The pending call keeps the limit it hands to getHistoricalCandles.
Subscribe(s, symbol, interval, initialBars) ==
  /\ conn[s] = "open"
  /\ IF interval \notin VALID_INTERVALS
     THEN /\ out' = Wire(Send(s, "error", symbol, interval, "Invalid interval", NoCandle))
          /\ UNCHANGED <<rooms, subscriptions, lastTick, pending>>
     ELSE IF symbol # SYMBOL
     THEN /\ out' = Wire(Send(s, "error", symbol, interval, "Invalid symbol", NoCandle))
          /\ UNCHANGED <<rooms, subscriptions, lastTick, pending>>
     ELSE /\ BagCardinality(pending) < scope.maxPending
          /\ LET r == addClientToRoom(rooms, subscriptions, s,
                                      [symbol |-> symbol, interval |-> interval])
             IN /\ rooms' = r.rooms
                /\ subscriptions' = r.subscriptions
          /\ lastTick' = getRoomBroadcaster(lastTick, now)
          /\ pending' = pending (+) SetToBag({[client |-> s, interval |-> interval,
                                               stage |-> "history", upd |-> FALSE,
                                               limit |-> historyLimit(initialBars)]})
          /\ out' = {}
  /\ UNCHANGED <<conn, isAlive, window, now, warmup, history>>

\* handleClientMessage, case 'unsubscribe': handleUnsubscribe
Unsubscribe(s, symbol, interval) ==
  /\ conn[s] = "open"
  /\ LET r == removeClientFromRoom(rooms, subscriptions, s,
                                   [symbol |-> symbol, interval |-> interval])
     IN /\ rooms' = r.rooms
        /\ subscriptions' = r.subscriptions
  /\ lastTick' = getRoomBroadcaster(lastTick, now)
  /\ out' = {}
  /\ ingested' = Ingested(rooms')
  /\ UNCHANGED <<conn, isAlive, window, now, warmup, pending, historyOfSessions>>

\* handleClientMessage, case 'ping': handlePing
Ping(s) ==
  /\ conn[s] = "open"
  /\ out' = Wire(Send(s, "pong", "", "", "", NoCandle))
  /\ UNCHANGED <<rooms, subscriptions, conn, isAlive, window, now, lastTick,
                 warmup, pending, history>>

\* handleClientMessage, default case and catch: unknown type, or JSON.parse
\* throws.
BadMessage(s, text) ==
  /\ conn[s] = "open"
  /\ out' = Wire(Send(s, "error", "", "", text, NoCandle))
  /\ UNCHANGED <<rooms, subscriptions, conn, isAlive, window, now, lastTick,
                 warmup, pending, history>>

\* The end of a handleSubscribe whose getHistoricalCandles has returned:
\* client.send(initial).
SendInitial(p) ==
  /\ out' = Wire(Send(p.client, "initial", SYMBOL, p.interval, "", NoCandle))
  /\ initials' =
       IF conn[p.client] = "open" /\ "initials" \in scope.observe
       THEN [initials EXCEPT ![p.client][<<SYMBOL, p.interval>>] =
               Min(@ + 1, MaxInitials)]
       ELSE initials
  /\ UNCHANGED <<scope, whaleVars, broadcasts, lastBar, hbSilent, probe, ingested, live>>

\* getHistoricalCandles without the lazy 1m fetch for an empty aggregator.
HistoryResolveNoWarmup(p, rows) ==
  /\ p \in BagToSet(pending)
  /\ p.stage = "history"
  /\ window' = IF p.interval = "1m" /\ Len(rows) > 0
               THEN initializeCandles(rows)
               ELSE window
  /\ pending' = pending (-) SetToBag({p})
  /\ SendInitial(p)
  /\ UNCHANGED <<rooms, subscriptions, conn, isAlive, now, lastTick, warmup>>

\* getHistoricalCandles: the first getCandlesticks resolves with rows.
HistoryResolve(p, rows) ==
  /\ p \in BagToSet(pending)
  /\ p.stage = "history"
  /\ IF p.interval # "1m" /\ Len(window) = 0
     THEN \* aggregator empty: await getCandlesticks(symbol, '1m', 1440)
          /\ pending' = (pending (-) SetToBag({p}))
                          (+) SetToBag({[p EXCEPT !.stage = "warmup",
                                                    !.limit = WarmupLimit]})
          /\ out' = {}
          /\ UNCHANGED <<window, history>>
     ELSE /\ window' = IF p.interval = "1m" /\ Len(rows) > 0
                       THEN initializeCandles(rows)
                       ELSE window
          /\ pending' = pending (-) SetToBag({p})
          /\ SendInitial(p)
  /\ UNCHANGED <<rooms, subscriptions, conn, isAlive, now, lastTick, warmup>>

\* getHistoricalCandles: the lazy 1m fetch resolves with rows.
LazyWarmupResolve(p, rows) ==
  /\ p \in BagToSet(pending)
  /\ p.stage = "warmup"
  /\ window' = initializeCandles(rows)
  /\ pending' = pending (-) SetToBag({p})
  /\ SendInitial(p)
  /\ UNCHANGED <<rooms, subscriptions, conn, isAlive, now, lastTick, warmup>>

\* The catch of handleSubscribe undoing the join.
HistoryRejectLeaves(p) ==
  /\ p \in BagToSet(pending)
  /\ pending' = pending (-) SetToBag({p})
  /\ out' = Wire(Send(p.client, "error", SYMBOL, p.interval,
                      "Failed to subscribe to candles", NoCandle))
  /\ LET r == removeClientFromRoom(rooms, subscriptions, p.client,
                                   [symbol |-> SYMBOL, interval |-> p.interval])
     IN /\ rooms' = r.rooms
        /\ subscriptions' = r.subscriptions
  /\ ingested' = Ingested(rooms')
  /\ UNCHANGED <<conn, isAlive, window, now, lastTick, warmup, historyOfSessions>>

\* Either getCandlesticks rejects: the catch of handleSubscribe.
HistoryReject(p) ==
  /\ p \in BagToSet(pending)
  /\ pending' = pending (-) SetToBag({p})
  /\ out' = Wire(Send(p.client, "error", SYMBOL, p.interval,
                      "Failed to subscribe to candles", NoCandle))
  /\ UNCHANGED <<rooms, subscriptions, conn, isAlive, window, now, lastTick,
                 warmup, history>>

\* ----------------------------------------------------------- broadcast loop
\* The rooms the setInterval callback of startBroadcastLoop broadcasts.
DueRooms == {k \in DOMAIN rooms : ShouldBroadcast(rooms[k], now)}

\* broadcastToRoom without the try/catch around client.send: the first throw
\* leaves the loop over the clients.
broadcastToRoomAborts(k, failing) ==
  IF \E c \in rooms[k].clients \cap failing : conn[c] = "open" THEN {}
  ELSE UNION {Send(c, "update", k[1], k[2], "", rooms[k].currentCandle) :
                c \in rooms[k].clients}

\* broadcastToRoom: the update goes to the clients whose readyState is OPEN
\* and whose client.send does not throw (failing: the clients whose send
\* throws in this pass).
broadcastToRoom(k, failing) ==
  IF rooms[k].currentCandle = NoCandle THEN {}
  ELSE UNION {Send(c, "update", k[1], k[2], "", rooms[k].currentCandle) :
                c \in rooms[k].clients \ failing}

\* One pass of the callback of startBroadcastLoop.
Broadcast(failing) ==
  /\ lastTick # NoTimer
  /\ TickDue(now, lastTick)
  /\ lastTick' = now
  /\ rooms' = [k \in DOMAIN rooms |->
                 IF k \in DueRooms
                 THEN [rooms[k] EXCEPT !.lastBroadcast = now]
                 ELSE rooms[k]]
  /\ out' = Wire(UNION {broadcastToRoom(k, failing) : k \in DueRooms})
  /\ broadcasts' = [k \in RoomKeys |->
                      IF k \in DueRooms /\ "broadcasts" \in scope.observe
                      THEN Append(broadcasts[k], now)
                      ELSE broadcasts[k]]
  /\ lastBar' = [k \in RoomKeys |->
                   IF /\ k \in DueRooms
                      /\ broadcastToRoom(k, failing) # {}
                      /\ "bars" \in scope.observe
                   THEN <<rooms[k].currentCandle.time>>
                   ELSE lastBar[k]]
  /\ LET Mark(p) ==
           IF /\ \E k \in DueRooms :
                   \E m \in broadcastToRoom(k, failing) :
                     m.to = p.client /\ m.interval = p.interval
              /\ "joins" \in scope.observe
           THEN [p EXCEPT !.upd = TRUE] ELSE p
     IN pending' = BagOfAll(Mark, pending)
  /\ UNCHANGED <<subscriptions, conn, isAlive, window, now, warmup, scope, whaleVars,
                 initials, hbSilent, probe, ingested, live>>

\* The callback of startBroadcastLoop.
BroadcastTick == \E failing \in SUBSET scope.sendFails : Broadcast(failing)

\* --------------------------------------------------------------- heartbeat
\* The heartbeat without `client.isAlive = false`.
AliveKept(alive) == alive

\* client.isAlive = false, before client.ping()
AliveAfterPing(alive) == FALSE

\* The heartbeat terminating without removeClientFromAllRooms.
removeNoClient(rs, subs, clients) == [rooms |-> rs, subscriptions |-> subs]

\* The forEach of the heartbeat over the dead clients.
RECURSIVE removeClientsFromAllRooms(_, _, _)
removeClientsFromAllRooms(rs, subs, clients) ==
  IF clients = {} THEN [rooms |-> rs, subscriptions |-> subs]
  ELSE LET c == CHOOSE x \in clients : TRUE
           r == removeClientFromAllRooms(rs, subs, c)
       IN removeClientsFromAllRooms(r.rooms, r.subscriptions, clients \ {c})

\* The setInterval callback of startHeartbeat, candles clients. Its period
\* (30 s) only spaces its own ticks: it may run at any point of the model.
HeartbeatTick ==
  LET dead == {s \in WssClients : ~isAlive[s]}
      r == removeClientsFromAllRooms(rooms, subscriptions, dead)
  IN /\ rooms' = r.rooms
     /\ subscriptions' = r.subscriptions
     /\ conn' = [s \in Sessions |->
                   IF s \in dead THEN "terminated" ELSE conn[s]]
     /\ isAlive' = [s \in Sessions |->
                      IF s \in WssClients \ dead THEN AliveAfterPing(isAlive[s])
                      ELSE isAlive[s]]
     /\ lastTick' = IF dead = {} THEN lastTick ELSE getRoomBroadcaster(lastTick, now)
     /\ hbSilent' = [s \in Sessions |->
                       IF s \in WssClients /\ "heartbeat" \in scope.observe
                       THEN Min(hbSilent[s] + 1, MaxSilent)
                       ELSE hbSilent[s]]
     /\ out' = Wire(UNION {Send(s, "ping", "", "", "", NoCandle) :
                             s \in WssClients \ dead})
     /\ ingested' = Ingested(rooms')
     /\ UNCHANGED <<window, now, warmup, pending, scope, whaleVars, initials, broadcasts,
                    lastBar, probe, live>>

\* ------------------------------------------------------------ specification
Next ==
  \/ Advance
  \/ \E rows \in StoreResults(scope.candleTimes) : StartupWarmupResolve(rows)
  \/ StartupWarmupReject
  \/ \E c \in UpstreamCandles(scope.candleTimes) : handleCandleUpdate(c)
  \/ \E s \in Sessions : Connect(s)
  \/ \E s \in Sessions : Pong(s)
  \/ \E s \in Sessions : CloseEvent(s)
  \/ \E s \in Sessions : ErrorEvent(s)
  \/ \E s \in Sessions, sym \in MsgSymbols, i \in MsgIntervals :
       \E b \in scope.initialBars : Subscribe(s, sym, i, b)
  \/ \E s \in Sessions : Subscribe(s, Undefined, Undefined, Omitted)
  \/ \E s \in Sessions : Unsubscribe(s, Undefined, Undefined)
  \/ \E s \in Sessions, sym \in MsgSymbols, i \in MsgIntervals : Unsubscribe(s, sym, i)
  \/ \E s \in Sessions : Ping(s)
  \/ \E s \in Sessions, text \in {"Unknown message type", "Invalid message format"} :
       BadMessage(s, text)
  \/ \E p \in BagToSet(pending), rows \in StoreResults(scope.candleTimes) : HistoryResolve(p, rows)
  \/ \E p \in BagToSet(pending), rows \in StoreResults(scope.candleTimes) : LazyWarmupResolve(p, rows)
  \/ \E p \in BagToSet(pending) : HistoryReject(p)
  \/ BroadcastTick
  \/ HeartbeatTick

\* Two sessions, one bar time, one broadcast period: memberships and
\* connection life cycle.
Init ==
  /\ Start
  /\ scope = [sessions |-> Sessions, candleTimes |-> {0},
              maxNow |-> RoomsMaxNow, maxPending |-> RoomsMaxPending,
              wire |-> {}, observe |-> {"heartbeat"},
              initialBars |-> {Omitted},
              sendFails |-> {}]

Spec == Init /\ [][Next]_vars

\* One session, two bar times, two broadcast periods: the initial and update
\* messages of a subscription.
InitWire ==
  /\ Start
  /\ scope = [sessions |-> {"c1"}, candleTimes |-> CandleTimes,
              maxNow |-> StreamMaxNow, maxPending |-> StreamMaxPending,
              wire |-> {"initial", "update"},
              observe |-> {"initials", "joins"},
              initialBars |-> {Omitted},
              sendFails |-> {}]

SpecWire == InitWire /\ [][Next]_vars

\* One session, two bar times, two broadcast periods: when a room is
\* broadcast and with which bar.
InitPace ==
  /\ Start
  /\ scope = [sessions |-> {"c1"}, candleTimes |-> CandleTimes,
              maxNow |-> StreamMaxNow, maxPending |-> StreamMaxPending,
              wire |-> {"update"},
              observe |-> {"bars", "broadcasts"},
              initialBars |-> {Omitted},
              sendFails |-> {}]

SpecPace == InitPace /\ [][Next]_vars

\* The values of initialBars a client sends: omitted, zero, negative, in
\* range, too large.
AnyInitialBars == {Omitted, Given(0), Given(-5), Given(50), Given(5000)}

\* One session, every message the server sends kept in `out`: the replies
\* to the frames of a client and the ping frames of the heartbeat.
InitReplies ==
  /\ Start
  /\ scope = [sessions |-> {"c1"}, candleTimes |-> {0},
              maxNow |-> RoomsMaxNow, maxPending |-> RoomsMaxPending,
              wire |-> {"error", "pong", "initial", "update", "ping"},
              observe |-> {"initials", "heartbeat"},
              initialBars |-> {Omitted},
              sendFails |-> {}]

SpecReplies == InitReplies /\ [][Next]_vars

\* One session whose subscribes carry any initialBars: the limit handed to
\* the history fetch.
InitLimits ==
  /\ Start
  /\ scope = [sessions |-> {"c1"}, candleTimes |-> {0},
              maxNow |-> RoomsMaxNow, maxPending |-> RoomsMaxPending,
              wire |-> {}, observe |-> {},
              initialBars |-> AnyInitialBars,
              sendFails |-> {}]

SpecLimits == InitLimits /\ [][Next]_vars

\* One session and the error replies it is sent.
InitErrors ==
  /\ Start
  /\ scope = [sessions |-> {"c1"}, candleTimes |-> {0},
              maxNow |-> RoomsMaxNow, maxPending |-> RoomsMaxPending,
              wire |-> {"error"}, observe |-> {},
              initialBars |-> {Omitted},
              sendFails |-> {}]

SpecErrors == InitErrors /\ [][Next]_vars

\* One session, two bar times, two broadcast periods: the candle the
\* upstream channel delivered last and the updates that carry it.
InitFresh ==
  /\ Start
  /\ scope = [sessions |-> {"c1"}, candleTimes |-> CandleTimes,
              maxNow |-> StreamMaxNow, maxPending |-> StreamMaxPending,
              wire |-> {"update"}, observe |-> {"ingests"},
              initialBars |-> {Omitted},
              sendFails |-> {}]

SpecFresh == InitFresh /\ [][Next]_vars

\* Bar times of upstream candles in two different 5m bars.
FarCandleTimes == {0, 300000}

\* One session and candles of the current 5m bar and of the next one: what
\* the delivery of a candle does to the rooms.
InitRefresh ==
  /\ Start
  /\ scope = [sessions |-> {"c1"}, candleTimes |-> FarCandleTimes,
              maxNow |-> RoomsMaxNow, maxPending |-> RoomsMaxPending,
              wire |-> {}, observe |-> {"ingests"},
              initialBars |-> {Omitted},
              sendFails |-> {}]

SpecRefresh == InitRefresh /\ [][Next]_vars

\* One session, one bar time: the initial message of a subscribe and the
\* fetches that precede it.
InitWarmup ==
  /\ Start
  /\ scope = [sessions |-> {"c1"}, candleTimes |-> {0},
              maxNow |-> RoomsMaxNow, maxPending |-> RoomsMaxPending,
              wire |-> {"initial"}, observe |-> {"initials"},
              initialBars |-> {Omitted},
              sendFails |-> {}]

SpecWarmup == InitWarmup /\ [][Next]_vars

\* One session, two bar times, any initialBars: the candles the upstream
\* channel delivered and the fetches that initialize the window.
InitIngest ==
  /\ Start
  /\ scope = [sessions |-> {"c1"}, candleTimes |-> CandleTimes,
              maxNow |-> RoomsMaxNow, maxPending |-> RoomsMaxPending,
              wire |-> {}, observe |-> {"live"},
              initialBars |-> AnyInitialBars,
              sendFails |-> {}]

SpecIngest == InitIngest /\ [][Next]_vars

\* Two sessions in the rooms of one bar time; client.send may throw for
\* either of them.
InitFanout ==
  /\ Start
  /\ scope = [sessions |-> Sessions, candleTimes |-> {0},
              maxNow |-> RoomsMaxNow, maxPending |-> RoomsMaxPending,
              wire |-> {"update"}, observe |-> {},
              initialBars |-> {Omitted},
              sendFails |-> Sessions]

SpecFanout == InitFanout /\ [][Next]_vars

\* One session; the timers of the broadcast loop and of the heartbeat fire
\* as long as the process runs. Nothing makes the store answer or the
\* client send.
InitLive ==
  /\ Start
  /\ scope = [sessions |-> {"c1"}, candleTimes |-> {0},
              maxNow |-> RoomsMaxNow, maxPending |-> RoomsMaxPending,
              wire |-> {}, observe |-> {},
              initialBars |-> {Omitted},
              sendFails |-> {}]

SpecLive ==
  /\ InitLive
  /\ [][Next]_vars
  /\ WF_vars(BroadcastTick)
  /\ WF_vars(HeartbeatTick)

\* ----------------------------------------------------- the aggregator alone
\* Bar times of the 1m candles handed to the aggregator directly: two
\* minutes of the 5m bar that starts at 0 and the first minute of the next.
WindowTimes == {0, 60000, 300000}

\* Date.now() at the calls: the first and the last millisecond of the 5m bar
\* that starts at 0, the first millisecond of the next bar and a minute later.
WindowClock == {0, 299999, 300000, 360000}

\* Two 1m candles of bar time t that differ in every other field.
Bar(t, shape) ==
  IF shape = "a"
  THEN [time |-> t, open |-> 2, high |-> 4, low |-> 1, close |-> 3,
        volume |-> 5, quoteVolume |-> NoQuoteVolume]
  ELSE [time |-> t, open |-> 3, high |-> 6, low |-> 2, close |-> 4,
        volume |-> 7, quoteVolume |-> 11]

WindowCandles == {Bar(t, shape) : t \in WindowTimes, shape \in {"a", "b"}}

\* The arrays handed to initializeCandles: any order, duplicate bar times,
\* one candle more than the window keeps.
BatchCandles == {Bar(t, "a") : t \in WindowTimes} \cup {Bar(0, "b")}
Batches == UNION {[1..n -> BatchCandles] : n \in 0..(MAX_1M_CANDLES + 1)}

\* The intervals getAggregatedCandle is asked for.
AskedIntervals == VALID_INTERVALS \cup {"10m"}

\* aggregator.processOneMinuteCandle(symbol, candle)
ProcessCall(candle) ==
  /\ window' = processOneMinuteCandle(window, candle)
  /\ probe' = [NoCall EXCEPT !.op = "process", !.candle = candle,
                              !.before = window]
  /\ out' = {}
  /\ UNCHANGED <<rooms, subscriptions, conn, isAlive, now, lastTick, warmup,
                 pending, scope, whaleVars, initials, broadcasts, lastBar, hbSilent,
                 ingested, live>>

\* aggregator.initializeCandles(symbol, candles)
InitializeCall(candles) ==
  /\ window' = initializeCandles(candles)
  /\ probe' = [NoCall EXCEPT !.op = "initialize", !.candles = candles]
  /\ out' = {}
  /\ UNCHANGED <<rooms, subscriptions, conn, isAlive, now, lastTick, warmup,
                 pending, scope, whaleVars, initials, broadcasts, lastBar, hbSilent,
                 ingested, live>>

\* aggregator.getAggregatedCandle(symbol, interval): probe keeps the result.
AggregateCall(interval) ==
  /\ probe' = [NoCall EXCEPT !.op = "aggregate", !.interval = interval,
                              !.at = now,
                              !.candle = getAggregatedCandle(window, interval, now)]
  /\ out' = {}
  /\ UNCHANGED <<rooms, subscriptions, conn, isAlive, window, now, lastTick,
                 warmup, pending, scope, whaleVars, initials, broadcasts, lastBar,
                 hbSilent, ingested, live>>

\* Time passes between two calls.
ClockCall(t) ==
  /\ t > now
  /\ now' = t
  /\ out' = {}
  /\ UNCHANGED <<rooms, subscriptions, conn, isAlive, window, lastTick, warmup,
                 pending, history>>

NextWindow ==
  \/ \E candle \in WindowCandles : ProcessCall(candle)
  \/ \E candles \in Batches : InitializeCall(candles)
  \/ \E interval \in AskedIntervals : AggregateCall(interval)
  \/ \E t \in WindowClock : ClockCall(t)

\* No session: the aggregator is called directly, in any order.
InitWindow ==
  /\ Start
  /\ scope = [sessions |-> {}, candleTimes |-> {}, maxNow |-> 0,
              maxPending |-> 0, wire |-> {}, observe |-> {},
              initialBars |-> {},
              sendFails |-> {}]

SpecWindow == InitWindow /\ [][NextWindow]_vars

\* ------------------------------------------------------------ whale alerts
\* The platform outside the whale alerts handler.
platform ==
  <<rooms, subscriptions, conn, isAlive, window, now, lastTick, warmup,
    pending, scope, out, initials, broadcasts, lastBar, hbSilent, probe,
    ingested, live>>

WhaleMsg(to, type, channels, text) ==
  [to |-> to, type |-> type, channels |-> channels, text |-> text]

\* client.send(...) of the whale handler: delivered on an open transport.
WhaleSend(m) == IF whaleConn[m.to] = "open" THEN {m} ELSE {}

\* sendError(client, message); `channels` tells two errors of a step apart.
sendError(client, channels, message) ==
  WhaleSend(WhaleMsg(client, "error", channels, message))

\* The handler's state as a handler call sees and leaves it; `at` is the
\* index of the channel whose Redis call the handler awaits, 0 when the
\* handler is over.
WhaleState ==
  [subs |-> whaleSubscriptions, chans |-> channelSubscriptions,
   redis |-> redisChannels, sent |-> {}, at |-> 0]

\* Map.set(key, value)
MapSet(map, key, value) ==
  [k \in DOMAIN map \cup {key} |-> IF k = key THEN value ELSE map[k]]

\* Map.delete(key)
MapDelete(map, key) == [k \in DOMAIN map \ {key} |-> map[k]]

\* handleSubscribe from channels[i] on, up to its next await or its end.
RECURSIVE subscribeLoop(_, _, _, _)
subscribeLoop(st, client, channels, i) ==
  IF i > Len(channels)
  THEN [st EXCEPT !.at = 0,
                  !.sent = @ \cup WhaleSend(WhaleMsg(client, "subscribed",
                                                     channels, ""))]
  ELSE LET channel == channels[i]
       IN IF channel \notin DOMAIN channelMap
          THEN subscribeLoop(
                 [st EXCEPT !.sent = @ \cup sendError(client, <<channel>>,
                                                      "Invalid channel")],
                 client, channels, i + 1)
          ELSE LET redisChannel == channelMap[channel]
                   added == [st EXCEPT !.subs[client] = @ \cup {channel}]
               IN IF redisChannel \notin DOMAIN st.chans
                  THEN [added EXCEPT
                          !.chans = MapSet(st.chans, redisChannel, {}),
                          !.redis = @ \cup {redisChannel},
                          !.at = i]
                  ELSE subscribeLoop(
                         [added EXCEPT !.chans[redisChannel] = @ \cup {client}],
                         client, channels, i + 1)

\* handleSubscribe resumed after `await redisSubscriber.subscribe(...)` of
\* channels[i]: `channelSubscriptions.get(redisChannel)!.add(client.id)`
\* throws when the entry is gone, and handleMessage's catch answers.
subscribeResume(st, client, channels, i) ==
  LET redisChannel == channelMap[channels[i]]
  IN IF redisChannel \notin DOMAIN st.chans
     THEN [st EXCEPT !.at = 0,
                     !.sent = @ \cup sendError(client, <<>>,
                                               "Invalid message format")]
     ELSE subscribeLoop([st EXCEPT !.chans[redisChannel] = @ \cup {client}],
                        client, channels, i + 1)

\* handleUnsubscribe from channels[i] on, up to its next await or its end.
RECURSIVE unsubscribeLoop(_, _, _, _)
unsubscribeLoop(st, client, channels, i) ==
  IF i > Len(channels)
  THEN [st EXCEPT !.at = 0]
  ELSE LET channel == channels[i]
       IN IF channel \notin DOMAIN channelMap
          THEN unsubscribeLoop(st, client, channels, i + 1)
          ELSE LET redisChannel == channelMap[channel]
                   removed == [st EXCEPT !.subs[client] = @ \ {channel}]
               IN IF redisChannel \notin DOMAIN st.chans
                  THEN unsubscribeLoop(removed, client, channels, i + 1)
                  ELSE IF st.chans[redisChannel] \ {client} = {}
                       THEN [removed EXCEPT
                               !.chans[redisChannel] = {},
                               !.redis = @ \ {redisChannel},
                               !.at = i]
                       ELSE unsubscribeLoop(
                              [removed EXCEPT
                                 !.chans[redisChannel] = @ \ {client}],
                              client, channels, i + 1)

\* handleUnsubscribe resumed after `await redisSubscriber.unsubscribe(...)`
\* of channels[i]: `channelSubscriptions.delete(redisChannel)`.
unsubscribeResume(st, client, channels, i) ==
  unsubscribeLoop([st EXCEPT !.chans = MapDelete(@, channelMap[channels[i]])],
                  client, channels, i + 1)

\* The <<client, Redis channel>> pairs that 'subscribed' messages confirm.
Confirms(msgs) ==
  UNION {{<<m.to, channelMap[m.channels[i]]>> :
            i \in {j \in DOMAIN m.channels : m.channels[j] \in DOMAIN channelMap}} :
         m \in {x \in msgs : x.type = "subscribed"}}

\* The handler call leaves the state st; it is suspended when st.at > 0.
WhaleLeaves(st, waiting, client, type, channels) ==
  /\ whaleSubscriptions' = st.subs
  /\ channelSubscriptions' = st.chans
  /\ redisChannels' = st.redis
  /\ whaleOut' = st.sent
  /\ whalePending' =
       IF st.at = 0 THEN waiting
       ELSE waiting (+) SetToBag({[client |-> client, type |-> type,
                                   channels |-> channels, at |-> st.at]})

\* handleConnection
WhaleConnect(c) ==
  /\ whaleConn[c] = "new"
  /\ whaleConn' = [whaleConn EXCEPT ![c] = "open"]
  /\ whaleSubscriptions' = [whaleSubscriptions EXCEPT ![c] = {}]
  /\ whaleOut' = {}
  /\ UNCHANGED <<channelSubscriptions, redisChannels, whalePending, confirmed,
                 platform>>

\* The client has no handler suspended: a client sends its next subscribe or
\* unsubscribe frame when its previous one has been handled, so that the
\* handlers that interleave are those of different clients.
Answered(c) == \A p \in BagToSet(whalePending) : p.client # c

\* A subscribe frame: handleMessage, handleSubscribe to its first await.
WhaleSubscribe(c, channels) ==
  /\ whaleConn[c] = "open"
  /\ Answered(c)
  /\ LET st == subscribeLoop(WhaleState, c, channels, 1)
     IN /\ st.at > 0 => BagCardinality(whalePending) < MaxWhalePending
        /\ WhaleLeaves(st, whalePending, c, "subscribe", channels)
        /\ confirmed' = confirmed \cup Confirms(st.sent)
  /\ UNCHANGED <<whaleConn, platform>>

\* An unsubscribe frame: handleMessage, handleUnsubscribe to its first await.
WhaleUnsubscribe(c, channels) ==
  /\ whaleConn[c] = "open"
  /\ Answered(c)
  /\ LET st == unsubscribeLoop(WhaleState, c, channels, 1)
     IN /\ st.at > 0 => BagCardinality(whalePending) < MaxWhalePending
        /\ WhaleLeaves(st, whalePending, c, "unsubscribe", channels)
  /\ confirmed' = confirmed \ {<<c, channelMap[channels[i]]>> :
                     i \in {j \in DOMAIN channels : channels[j] \in DOMAIN channelMap}}
  /\ UNCHANGED <<whaleConn, platform>>

\* The awaited Redis call of a suspended handler resolves.
WhaleResume(p) ==
  /\ p \in BagToSet(whalePending)
  /\ LET st == IF p.type = "subscribe"
               THEN subscribeResume(WhaleState, p.client, p.channels, p.at)
               ELSE unsubscribeResume(WhaleState, p.client, p.channels, p.at)
     IN /\ WhaleLeaves(st, whalePending (-) SetToBag({p}), p.client, p.type,
                       p.channels)
        /\ confirmed' = confirmed \cup Confirms(st.sent)
  /\ UNCHANGED <<whaleConn, platform>>

\* The 'close' event: handleDisconnect.
handleDisconnect(c) ==
  /\ whaleConn[c] = "open"
  /\ whaleConn' = [whaleConn EXCEPT ![c] = "closed"]
  /\ LET emptied == {r \in DOMAIN channelSubscriptions :
                       channelSubscriptions[r] \ {c} = {}}
     IN /\ channelSubscriptions' =
             [r \in DOMAIN channelSubscriptions \ emptied |->
                channelSubscriptions[r] \ {c}]
        /\ redisChannels' = redisChannels \ emptied
  /\ confirmed' = {e \in confirmed : e[1] # c}
  /\ whaleOut' = {}
  /\ UNCHANGED <<whaleSubscriptions, whalePending, platform>>

\* A ping frame: handlePing.
handlePing(c) ==
  /\ whaleConn[c] = "open"
  /\ whaleOut' = WhaleSend(WhaleMsg(c, "pong", <<>>, ""))
  /\ UNCHANGED <<whaleConn, whaleSubscriptions, channelSubscriptions,
                 redisChannels, whalePending, confirmed, platform>>

\* Redis publishes on a channel the subscriber listens on.
handleRedisMessage(redisChannel) ==
  /\ redisChannel \in redisChannels
  /\ whaleOut' =
       IF redisChannel \in DOMAIN channelSubscriptions
       THEN UNION {WhaleSend(WhaleMsg(c, "whale_alert", <<>>, redisChannel)) :
                     c \in channelSubscriptions[redisChannel]}
       ELSE {}
  /\ UNCHANGED <<whaleConn, whaleSubscriptions, channelSubscriptions,
                 redisChannels, whalePending, confirmed, platform>>

NextWhales ==
  \/ \E c \in WhaleClients : WhaleConnect(c)
  \/ \E c \in WhaleClients, channels \in WhaleRequests :
       WhaleSubscribe(c, channels)
  \/ \E c \in WhaleClients, channels \in WhaleRequests :
       WhaleUnsubscribe(c, channels)
  \/ \E p \in BagToSet(whalePending) : WhaleResume(p)
  \/ \E c \in WhaleClients : handleDisconnect(c)
  \/ \E c \in WhaleClients : handlePing(c)
  \/ \E redisChannel \in {channelMap[ch] : ch \in DOMAIN channelMap} :
       handleRedisMessage(redisChannel)

\* The whale alerts endpoint alone, its Redis subscriber connected.
InitWhales ==
  /\ Start
  /\ scope = [sessions |-> {}, candleTimes |-> {}, maxNow |-> 0,
              maxPending |-> 0, wire |-> {}, observe |-> {},
              initialBars |-> {},
              sendFails |-> {}]

SpecWhales == InitWhales /\ [][NextWhales]_vars

\* ================================================================== claims
\* The session is in no room's client set and its subscriptions are empty.
InNoRoom(s) ==
  /\ subscriptions[s] = {}
  /\ \A k \in DOMAIN rooms : s \notin rooms[k].clients

\* C1: every registered room has at least one client, in every reachable
\* state; and a room enters the registry only in a step that joins a session
\* to it (the room then holds that session and the session holds its key).
C1_RoomsNeverEmpty ==
  /\ [](\A k \in DOMAIN rooms : rooms[k].clients # {})
  /\ [][\A k \in DOMAIN rooms' \ DOMAIN rooms :
          \E s \in Sessions :
            /\ rooms'[k].clients = {s}
            /\ k \in subscriptions'[s] \ subscriptions[s]]_vars

\* C1 witness: a subscribe is still waiting for its history while its room
\* is gone: the room it created was removed when its last client left.
C1_Witness ==
  \E p \in BagToSet(pending) :
    /\ conn[p.client] = "open"
    /\ <<SYMBOL, p.interval>> \notin DOMAIN rooms

\* C2: every room key in a session's subscriptions names a registered room
\* whose client set contains the session.
C2_SubscriptionsAreMemberships ==
  \A s \in Sessions :
    \A k \in subscriptions[s] : k \in DOMAIN rooms /\ s \in rooms[k].clients

\* C2 witness: a session subscribed to two rooms, one shared with the other
\* session.
C2_Witness ==
  \E s \in Sessions :
    /\ Cardinality(subscriptions[s]) = 2
    /\ \E k \in DOMAIN rooms : Cardinality(rooms[k].clients) = 2

\* C7: a session the heartbeat has terminated is in no room and has no
\* subscriptions, in the state the tick leaves and ever after (its transport
\* is terminated, then closed).
C7_TerminatedLeavesNoEntry ==
  \A s \in Sessions : conn[s] \in {"terminated", "closed"} => InNoRoom(s)

\* C7 witness: the heartbeat terminated a session whose subscribe is still
\* in flight, and the room it had joined lives on with the other session.
C7_Witness ==
  \E p \in BagToSet(pending) :
    /\ conn[p.client] = "terminated"
    /\ <<SYMBOL, p.interval>> \in DOMAIN rooms

\* C8: a session that two heartbeat ticks have visited since it connected
\* (or since its last pong frame) without a pong frame in between has been
\* terminated and its memberships are released.
C8_SilentSessionTerminated ==
  \A s \in Sessions :
    hbSilent[s] >= 2 => conn[s] \in {"terminated", "closed"} /\ InNoRoom(s)

\* C8 witness: the second tick has just terminated a silent session.
C8_Witness ==
  \E s \in Sessions : hbSilent[s] = 2 /\ conn[s] = "terminated"

AloneIn(s) == {k \in DOMAIN rooms : rooms[k].clients = {s}}

\* C10: the close handler's removeClientFromAllRooms(s) leaves s in no room
\* and with no subscriptions, removes exactly the rooms whose only client
\* was s (the registry shrinks by their number), and leaves every other room
\* as it was but for the removal of s; the other sessions' subscriptions are
\* unchanged.
C10_LeaveAllFrame ==
  [][\A s \in Sessions :
       CloseEvent(s) =>
         /\ subscriptions'[s] = {}
         /\ \A k \in DOMAIN rooms' : s \notin rooms'[k].clients
         /\ DOMAIN rooms' = DOMAIN rooms \ AloneIn(s)
         /\ Cardinality(DOMAIN rooms') =
              Cardinality(DOMAIN rooms) - Cardinality(AloneIn(s))
         /\ \A k \in DOMAIN rooms' :
              rooms'[k] = [rooms[k] EXCEPT !.clients = @ \ {s}]
         /\ \A t \in Sessions \ {s} : subscriptions'[t] = subscriptions[t]]_vars

\* C10 witness: a session has closed while its subscribe was in flight; the
\* room of that subscribe survives with the other session alone in it, and
\* that session still holds its two rooms.
C10_Witness ==
  \E p \in BagToSet(pending) :
    \E t \in Sessions \ {p.client} :
      /\ conn[p.client] = "closed"
      /\ <<SYMBOL, p.interval>> \in AloneIn(t)
      /\ Cardinality(subscriptions[t]) = 2

\* C3: every update message a step sends to a session for a room finds
\* exactly one initial message already sent to that session for that room.
C3_UpdateAfterOneInitial ==
  [][\A m \in out' :
       m.type = "update" => initials[m.to][<<m.symbol, m.interval>>] = 1]_vars

\* C4: when a subscribe sends its initial message, no update for the same
\* room has gone to the same session since the join of that subscribe.
C4_NoUpdateBeforeInitial ==
  [][\A p \in BagToSet(pending) :
       (/\ CopiesIn(p, pending') < CopiesIn(p, pending)
        /\ \E m \in out' : /\ m.type = "initial"
                           /\ m.to = p.client
                           /\ m.interval = p.interval)
       => ~p.upd]_vars

\* ceil(a / b) for a >= 0, b > 0
CeilDiv(a, b) == (a + b - 1) \div b

\* C5: for every room key, any N broadcasts of that room that lie in a
\* window of T ms satisfy N <= ceil(T / 1000) + 1, the room having been
\* destroyed and created again in between or not.
C5_Throttle ==
  \A k \in RoomKeys :
    \A i, j \in 1..Len(broadcasts[k]) :
      i <= j =>
        j - i + 1 <=
          CeilDiv(broadcasts[k][j] - broadcasts[k][i], BROADCAST_INTERVAL_MS) + 1

\* C5 witness: a room was broadcast, left by its last client and created
\* again by a join within the same millisecond; the new room has a candle
\* and its lastBroadcast is 0 again.
C5_Witness ==
  \E k \in DOMAIN rooms :
    /\ Len(broadcasts[k]) = 1
    /\ broadcasts[k][1] = now
    /\ rooms[k].lastBroadcast = 0
    /\ rooms[k].clients # {}
    /\ rooms[k].currentCandle # NoCandle

\* C6: within a room, the bar time of an update is never less than the bar
\* time of the update sent before it.
C6_BarTimeMonotonic ==
  [][\A k \in RoomKeys :
       lastBar[k] # <<>> => lastBar'[k][1] >= lastBar[k][1]]_vars

\* The subscriptions a caller can hand to the broadcaster.
AnySubscription == [symbol : MsgSymbols, interval : MsgIntervals]

\* The registry and the sessions' subscriptions of the current state.
Registry == [rooms |-> rooms, subscriptions |-> subscriptions]

\* addClientToRoom(s, sub) followed immediately by removeClientFromRoom(s, sub)
JoinThenLeave(s, sub) ==
  LET a == addClientToRoom(rooms, subscriptions, s, sub)
  IN removeClientFromRoom(a.rooms, a.subscriptions, s, sub)

\* C11 as claimed: from every registry state, for every session and
\* subscription, a join followed immediately by the leave restores the rooms
\* (keys, client sets, currentCandle, lastBroadcast) and the subscriptions.
C11_JoinThenLeaveRestores ==
  \A s \in Sessions : \A sub \in AnySubscription :
    JoinThenLeave(s, sub) = Registry

\* C11 amended: the join followed by the leave restores the registry when
\* the session was not a member of the room; when it was one, the pair
\* leaves the registry as the leave alone does.
C11_JoinThenLeaveRestoresNonMember ==
  \A s \in Sessions : \A sub \in AnySubscription :
    IF getRoomKey(sub) \notin subscriptions[s]
    THEN JoinThenLeave(s, sub) = Registry
    ELSE /\ JoinThenLeave(s, sub) =
              removeClientFromRoom(rooms, subscriptions, s, sub)
         /\ JoinThenLeave(s, sub) # Registry

\* C11 witness: a session subscribed to a room the other session holds and
\* left it again while its subscribe was still waiting for the history; the
\* room is there without it.
C11_Witness ==
  \E p \in BagToSet(pending) :
    /\ conn[p.client] = "open"
    /\ <<SYMBOL, p.interval>> \in DOMAIN rooms
    /\ p.client \notin rooms[<<SYMBOL, p.interval>>].clients

\* C12: joining twice in a row gives what joining once gives; a join of a
\* session that is already a member changes nothing, and a join to an
\* existing room only adds the session to its client set (currentCandle and
\* lastBroadcast are kept).
C12_JoinIdempotent ==
  \A s \in Sessions : \A sub \in AnySubscription :
    LET k == getRoomKey(sub)
        a == addClientToRoom(rooms, subscriptions, s, sub)
    IN /\ addClientToRoom(a.rooms, a.subscriptions, s, sub) = a
       /\ k \in subscriptions[s] => a = Registry
       /\ k \in DOMAIN rooms =>
            a.rooms[k] = [rooms[k] EXCEPT !.clients = @ \cup {s}]

\* C12 witness: a subscribe is in flight for a room that holds both
\* sessions, has a candle and has been broadcast.
C12_Witness ==
  \E p \in BagToSet(pending) :
    /\ <<SYMBOL, p.interval>> \in DOMAIN rooms
    /\ rooms[<<SYMBOL, p.interval>>].clients = Sessions
    /\ rooms[<<SYMBOL, p.interval>>].currentCandle # NoCandle
    /\ rooms[<<SYMBOL, p.interval>>].lastBroadcast > 0

\* C13: an unsubscribe sends nothing to the client, and one for a room the
\* session is not a member of (the room is absent, or it is there without
\* the session) changes neither the rooms nor any session's subscriptions.
C13_UnsubscribeNonMemberNoOp ==
  [][\* only a step that sends something or changes the registry can
     \* break the claim
     (out' # {} \/ rooms' # rooms \/ subscriptions' # subscriptions)
     => \A s \in Sessions : \A sub \in AnySubscription :
          Unsubscribe(s, sub.symbol, sub.interval) =>
            /\ out' = {}
            /\ (\/ getRoomKey(sub) \notin DOMAIN rooms
                \/ s \notin rooms[getRoomKey(sub)].clients)
               => /\ rooms' = rooms
                  /\ subscriptions' = subscriptions]_vars

\* C13 witness: an open session is a member of one room and not of the
\* other room, which the other session holds.
C13_Witness ==
  \E s \in Sessions : \E k \in DOMAIN rooms :
    /\ conn[s] = "open"
    /\ s \notin rooms[k].clients
    /\ subscriptions[s] # {}
    /\ lastTick # NoTimer

\* C14: the 1m window never holds more than MAX_1M_CANDLES candles, whatever
\* the calls of processOneMinuteCandle and initializeCandles have been.
C14_WindowCapped == Len(window) <= MAX_1M_CANDLES

\* C14 witness: processOneMinuteCandle pushed a candle of a new bar time on
\* a full window and the head was shifted out.
C14_Witness ==
  /\ probe.op = "process"
  /\ Len(probe.before) = MAX_1M_CANDLES
  /\ probe.before[Len(probe.before)].time # probe.candle.time
  /\ Len(window) = MAX_1M_CANDLES

\* C15: the 1m window is ordered by non-decreasing time and two consecutive
\* candles of different times are exactly one minute apart.
C15_WindowOrderedMinuteApart ==
  \A i \in 1..(Len(window) - 1) :
    /\ window[i].time <= window[i + 1].time
    /\ window[i].time # window[i + 1].time =>
         window[i + 1].time - window[i].time = INTERVAL_TO_MS["1m"]

\* C16: a candle whose time is strictly less than the time of the window's
\* tail is rejected: processOneMinuteCandle leaves the window unchanged.
C16_OutOfOrderRejected ==
  (/\ probe.op = "process"
   /\ Len(probe.before) > 0
   /\ probe.candle.time < probe.before[Len(probe.before)].time)
  => window = probe.before

\* C17: processOneMinuteCandle(a) followed by processOneMinuteCandle(b), a
\* and b of the same time, gives the window processOneMinuteCandle(b) alone
\* gives (a is the call the probe holds, b any candle of a's time).
C17_SameTimeLastWins ==
  probe.op = "process" =>
    \A b \in WindowCandles :
      b.time = probe.candle.time =>
        processOneMinuteCandle(window, b) =
          processOneMinuteCandle(probe.before, b)

\* C17 witness: a candle replaced the tail of a full window, the tail being
\* another candle of the same time.
C17_Witness ==
  /\ probe.op = "process"
  /\ Len(probe.before) = MAX_1M_CANDLES
  /\ probe.before[Len(probe.before)].time = probe.candle.time
  /\ probe.before[Len(probe.before)] # probe.candle
  /\ window[Len(window)] = probe.candle

\* How many times x occurs in the sequence s.
Occurrences(s, x) == Cardinality({i \in DOMAIN s : s[i] = x})

\* C18: after initializeCandles(S) the window holds min(|S|, MAX_1M_CANDLES)
\* candles, in non-decreasing time, all taken from S, every candle of S left
\* out being no later than those kept; the previous window plays no part and
\* a second call with S gives the same window.
C18_InitializeKeepsSortedTail ==
  probe.op = "initialize" =>
    LET S == probe.candles
    IN /\ Len(window) = Min(Len(S), MAX_1M_CANDLES)
       /\ \A i \in 1..(Len(window) - 1) : window[i].time <= window[i + 1].time
       /\ \A i \in DOMAIN window :
            Occurrences(window, window[i]) <= Occurrences(S, window[i])
       /\ \A j \in DOMAIN S :
            Occurrences(window, S[j]) < Occurrences(S, S[j]) =>
              \A i \in DOMAIN window : S[j].time <= window[i].time
       /\ initializeCandles(S) = window

\* C18 witness: initializeCandles was given more candles than the window
\* keeps, latest first.
C18_Witness ==
  /\ probe.op = "initialize"
  /\ Len(probe.candles) > MAX_1M_CANDLES
  /\ probe.candles[1].time > probe.candles[Len(probe.candles)].time
  /\ Len(window) = MAX_1M_CANDLES

\* The start of the bar of `interval` that contains the time `at`.
BarStart(interval, at) == at - (at % INTERVAL_TO_MS[interval])

\* The positions of the window whose candle lies in that bar.
InBar(interval, at) ==
  {j \in DOMAIN window :
     /\ window[j].time >= BarStart(interval, at)
     /\ window[j].time < BarStart(interval, at) + INTERVAL_TO_MS[interval]}

RECURSIVE VolumeOver(_)
VolumeOver(J) ==
  IF J = {} THEN 0
  ELSE LET j == CHOOSE x \in J : TRUE
       IN window[j].volume + VolumeOver(J \ {j})

\* C19: for a higher timeframe with at least one 1m candle in the bar that
\* contains now, getAggregatedCandle returns the bar start as time, the open
\* of an earliest candle of the bar, the close of a latest one, the highest
\* high, the lowest low and the sum of the volumes of the candles of the bar.
C19_AggregateOfBar ==
  (/\ probe.op = "aggregate"
   /\ probe.interval \in VALID_INTERVALS \ {"1m"}
   /\ InBar(probe.interval, probe.at) # {})
  => LET J == InBar(probe.interval, probe.at)
         r == probe.candle
     IN /\ r.time = BarStart(probe.interval, probe.at)
        /\ \E j \in J : /\ \A k \in J : window[j].time <= window[k].time
                        /\ r.open = window[j].open
        /\ \E j \in J : /\ \A k \in J : window[j].time >= window[k].time
                        /\ r.close = window[j].close
        /\ \A j \in J : r.high >= window[j].high /\ r.low <= window[j].low
        /\ \E j \in J : r.high = window[j].high
        /\ \E j \in J : r.low = window[j].low
        /\ r.volume = VolumeOver(J)

\* C19 witness: the 5m bar was aggregated from two candles that the window
\* holds latest first.
C19_Witness ==
  /\ probe.op = "aggregate"
  /\ probe.interval = "5m"
  /\ \E j, k \in InBar("5m", probe.at) :
       j < k /\ window[j].time > window[k].time /\ window[j] # window[k]
  /\ probe.candle # NoCandle

\* C20 as claimed: for every supported interval, 1m included,
\* getAggregatedCandle returns absent when no candle of the window lies in
\* the bar of that interval that contains now.
C20_AbsentWhenBarEmpty ==
  (/\ probe.op = "aggregate"
   /\ probe.interval \in VALID_INTERVALS
   /\ InBar(probe.interval, probe.at) = {})
  => probe.candle = NoCandle

\* C20 amended: for a higher timeframe getAggregatedCandle returns absent
\* when no candle of the window lies in the bar that contains now; for 1m
\* it returns the tail of the window, whatever its time, and absent only
\* when the window is empty.
C20_AbsentWhenBarEmptyTailFor1m ==
  probe.op = "aggregate" =>
    /\ (probe.interval \in VALID_INTERVALS \ {"1m"}
        /\ InBar(probe.interval, probe.at) = {})
       => probe.candle = NoCandle
    /\ probe.interval = "1m" =>
         probe.candle = IF window = <<>> THEN NoCandle
                        ELSE window[Len(window)]

\* C20 witness: asked for 1m while the minute that contains now has no
\* candle, getAggregatedCandle returned the tail of the window.
C20_Witness ==
  /\ probe.op = "aggregate"
  /\ probe.interval = "1m"
  /\ InBar("1m", probe.at) = {}
  /\ probe.candle # NoCandle

\* The sum of the quoteVolume of the candles at the positions J, a missing
\* quoteVolume counted as 0.
RECURSIVE QuoteVolumeOver(_)
QuoteVolumeOver(J) ==
  IF J = {} THEN 0
  ELSE LET j == CHOOSE x \in J : TRUE
       IN (IF window[j].quoteVolume = NoQuoteVolume THEN 0
           ELSE window[j].quoteVolume) + QuoteVolumeOver(J \ {j})

\* C21: the quoteVolume of a higher-timeframe aggregate is absent exactly
\* when it is absent on every 1m candle of the bar; otherwise it is the sum
\* over the bar with a missing quoteVolume counted as 0.
C21_QuoteVolumeAbsentIffAllAbsent ==
  (/\ probe.op = "aggregate"
   /\ probe.interval \in VALID_INTERVALS \ {"1m"}
   /\ InBar(probe.interval, probe.at) # {})
  => LET J == InBar(probe.interval, probe.at)
     IN IF \A j \in J : window[j].quoteVolume = NoQuoteVolume
        THEN probe.candle.quoteVolume = NoQuoteVolume
        ELSE probe.candle.quoteVolume = QuoteVolumeOver(J)

\* The positions of the window whose candle is in the same bar of D ms as
\* the instant t.
SameBar(D, t) == {j \in DOMAIN window : window[j].time \div D = t \div D}

\* The aggregate r returned for the interval at the instant t is that of the
\* bar of D ms that starts at the multiple b of D with b <= t < b + D and
\* takes exactly the candles of [b, b + D): at t = D - 1 it starts at 0, at
\* t = D it starts at D; no aggregate is returned exactly when that bar holds
\* no candle.
BarIsFloor(interval, t, r) ==
  LET D == INTERVAL_TO_MS[interval]
  IN IF SameBar(D, t) = {} THEN r = NoCandle
     ELSE /\ r # NoCandle
          /\ r.time % D = 0
          /\ r.time <= t /\ t < r.time + D
          /\ t = D - 1 => r.time = 0
          /\ t = D => r.time = D
          /\ r.volume = VolumeOver(SameBar(D, t))

\* C22 as stated: for every supported timeframe of D ms and every instant
\* t >= 0, the current bar starts at floor(t / D) * D and covers
\* [start, start + D).
C22_BarStartIsFloor ==
  (probe.op = "aggregate" /\ probe.interval \in VALID_INTERVALS)
  => BarIsFloor(probe.interval, probe.at, probe.candle)

\* C22 amended: the bar of a timeframe above 1m starts at floor(t / D) * D
\* and covers [start, start + D) (the 1W bar at epoch 0 starts at 0); for 1m
\* the aggregator returns the tail candle of the window, whatever its time.
C22_BarStartIsFloorAbove1m ==
  (probe.op = "aggregate" /\ probe.interval \in VALID_INTERVALS)
  => IF probe.interval = "1m"
     THEN probe.candle = IF window = <<>> THEN NoCandle ELSE window[Len(window)]
     ELSE BarIsFloor(probe.interval, probe.at, probe.candle)

\* C22 witness: asked for 5m in the last millisecond of the bar that starts
\* at 0, with a candle of that bar and the first candle of the next bar in
\* the window, the aggregator returned the bar that starts at 0.
C22_Witness ==
  /\ probe.op = "aggregate"
  /\ probe.interval = "5m"
  /\ probe.at = INTERVAL_TO_MS["5m"] - 1
  /\ \E j, k \in DOMAIN window :
       window[j].time = INTERVAL_TO_MS["5m"] /\ window[k].time < window[j].time
  /\ probe.candle.time = 0

\* The subscriptions of the frames a client sends, the frame without symbol
\* and interval included.
FrameSubscription ==
  AnySubscription \cup {[symbol |-> Undefined, interval |-> Undefined]}

\* C23: a subscribe with an invalid interval, or with a valid interval and a
\* symbol other than BTC/USDT, sends exactly one error (the interval tested
\* first), joins no room, starts no history fetch and leaves the session
\* open; a valid subscribe on the session joins the room.
C23_InvalidSubscribeOnlyReplies ==
  [][\A s \in Sessions : \A sub \in FrameSubscription :
       \A b \in scope.initialBars \cup {Omitted} :
         Subscribe(s, sub.symbol, sub.interval, b) =>
           IF sub.interval \notin VALID_INTERVALS \/ sub.symbol # SYMBOL
           THEN /\ out' = {Msg(s, "error", sub.symbol, sub.interval,
                               IF sub.interval \notin VALID_INTERVALS
                               THEN "Invalid interval" ELSE "Invalid symbol",
                               NoCandle)}
                /\ rooms' = rooms
                /\ subscriptions' = subscriptions
                /\ pending' = pending
                /\ conn'[s] = "open"
           ELSE /\ getRoomKey(sub) \in DOMAIN rooms'
                /\ s \in rooms'[getRoomKey(sub)].clients
                /\ getRoomKey(sub) \in subscriptions'[s]]_vars

\* C23 witness: a session that is a member of a room has just been sent
\* the error for a valid interval with another symbol, and is open.
C23_Witness ==
  \E s \in Sessions : \E i \in VALID_INTERVALS :
    /\ out = {Msg(s, "error", "ETH/USDT", i, "Invalid symbol", NoCandle)}
    /\ conn[s] = "open"
    /\ subscriptions[s] # {}

\* C24: a frame that is not JSON, has a missing or unknown type or lacks
\* required fields gets exactly one error reply and changes neither the
\* rooms nor the session's subscriptions or liveness; the session stays open.
C24_MalformedFrameOneError ==
  [][\A s \in Sessions :
       (\/ \E text \in {"Unknown message type", "Invalid message format"} :
             BadMessage(s, text)
        \/ Subscribe(s, Undefined, Undefined, Omitted)
        \/ Unsubscribe(s, Undefined, Undefined))
       => /\ \E m \in out' : out' = {m} /\ m.type = "error" /\ m.to = s
          /\ rooms' = rooms
          /\ subscriptions' = subscriptions
          /\ isAlive' = isAlive
          /\ conn'[s] = "open"]_vars

\* C25: the limit a subscribe hands to the history fetch lies in [1, 1000]
\* (100 when initialBars is omitted).
C25_HistoryLimitClamped ==
  \A p \in BagToSet(pending) :
    p.stage = "history" => p.limit >= 1 /\ p.limit <= 1000

\* C26: when the history fetch of a subscribe fails, the session is sent the
\* error 'Failed to subscribe to candles' and nothing else, and the rooms
\* and subscriptions stay as they are; every broadcast of a room sends an
\* update to each of its open clients, the one whose fetch failed included.
C26_FailedFetchKeepsMembership ==
  [][/\ \A p \in BagToSet(pending) :
          HistoryReject(p) =>
            /\ out' = IF conn[p.client] = "open"
                      THEN {Msg(p.client, "error", SYMBOL, p.interval,
                                "Failed to subscribe to candles", NoCandle)}
                      ELSE {}
            /\ rooms' = rooms
            /\ subscriptions' = subscriptions
     /\ BroadcastTick =>
          \A k \in DueRooms : \A c \in rooms[k].clients :
            conn[c] = "open" =>
              Msg(c, "update", k[1], k[2], "", rooms[k].currentCandle) \in out']_vars

\* C26 witness: an update has just gone to an open session for a room it
\* joined by a subscribe that is over and never sent an initial message.
C26_Witness ==
  \E m \in out :
    /\ m.type = "update"
    /\ conn[m.to] = "open"
    /\ initials[m.to][<<m.symbol, m.interval>>] = 0
    /\ pending = EmptyBag
    /\ <<m.symbol, m.interval>> \in subscriptions[m.to]

\* C27: processing a ping message of a session sets its liveness flag.
C27_PingMessageSetsAlive ==
  [][\A s \in Sessions : Ping(s) => isAlive'[s]]_vars

\* C28: a session whose pong frame arrived since the last heartbeat tick (or
\* that connected since) has its liveness flag set; the tick leaves it open,
\* clears the flag, sends it a ping frame and leaves its subscriptions and
\* its place in every room as they are.
C28_PongKeepsSessionAlive ==
  /\ [](\A s \in Sessions : conn[s] = "open" /\ hbSilent[s] = 0 => isAlive[s])
  /\ [][HeartbeatTick =>
          \A s \in Sessions :
            (conn[s] = "open" /\ hbSilent[s] = 0) =>
              /\ conn'[s] = "open"
              /\ ~isAlive'[s]
              /\ Msg(s, "ping", "", "", "", NoCandle) \in out'
              /\ subscriptions'[s] = subscriptions[s]
              /\ \A k \in DOMAIN rooms :
                   s \in rooms[k].clients =>
                     k \in DOMAIN rooms' /\ s \in rooms'[k].clients]_vars

\* C28 witness: a heartbeat tick has just visited an open session that is a
\* member of a room: its flag is cleared and a ping frame went out.
C28_Witness ==
  \E s \in Sessions :
    /\ conn[s] = "open"
    /\ hbSilent[s] = 1
    /\ ~isAlive[s]
    /\ subscriptions[s] # {}
    /\ Msg(s, "ping", "", "", "", NoCandle) \in out

\* The session is open and one of its subscribes waits for the store.
Waiting(s) ==
  /\ conn[s] = "open"
  /\ \E p \in BagToSet(pending) : p.client = s

\* C29: a subscribe that waits for the store on an open session is
\* eventually over (its initial or its error sent), or the session is no
\* longer open, even when the store never answers.
C29_SubscribeEventuallyReplies ==
  \A s \in Sessions : Waiting(s) ~> ~Waiting(s)

\* C30: when a subscribe sends its initial message, the session is a member
\* of the room of that subscribe.
C30_InitialImpliesMember ==
  [][\A m \in out' :
       m.type = "initial" =>
         /\ <<m.symbol, m.interval>> \in DOMAIN rooms'
         /\ m.to \in rooms'[<<m.symbol, m.interval>>].clients]_vars

\* C31: when client.send throws for some clients during a pass of the
\* broadcast loop, every other OPEN client of every room that is broadcast in
\* that pass is sent its update, no client leaves a room and the rooms, the
\* subscriptions and the transports are otherwise as before.
C31_SendFailureIsolated ==
  [][(lastTick' = now /\ conn' = conn) =>
       \A failing \in SUBSET scope.sendFails :
         Broadcast(failing) =>
           /\ \A k \in DueRooms : \A c \in rooms[k].clients \ failing :
                conn[c] = "open" =>
                  Msg(c, "update", k[1], k[2], "", rooms[k].currentCandle) \in out'
           /\ \A m \in out' : m.to \notin failing
           /\ DOMAIN rooms' = DOMAIN rooms
           /\ \A k \in DOMAIN rooms :
                /\ rooms'[k].clients = rooms[k].clients
                /\ rooms'[k].currentCandle = rooms[k].currentCandle
           /\ subscriptions' = subscriptions]_vars

\* C31 witness: a pass has just broadcast a room with two OPEN clients; one
\* was sent the update, the send to the other threw, and both are members.
C31_Witness ==
  \E k \in DOMAIN rooms : \E a, b \in rooms[k].clients :
    /\ conn[a] = "open" /\ conn[b] = "open"
    /\ rooms[k].lastBroadcast = now
    /\ Msg(a, "update", k[1], k[2], "", rooms[k].currentCandle) \in out
    /\ \A m \in out : m.to # b
    /\ k \in subscriptions[b]

\* The room passes the three tests of the broadcast loop.
Eligible(room) ==
  /\ room.clients # {}
  /\ room.currentCandle # NoCandle
  /\ now - room.lastBroadcast >= BROADCAST_INTERVAL_MS

C32_UpdateCarriesLastIngested ==
  [][BroadcastTick =>
       LET k == <<SYMBOL, "1m">>
       IN /\ \A s \in Sessions :
               (/\ k \in DOMAIN rooms
                /\ ingested[k] # <<>>
                /\ s \in rooms[k].clients
                /\ conn[s] = "open")
               => Msg(s, "update", SYMBOL, "1m", "", ingested[k][1]) \in out'
          /\ \A m \in out' :
               (m.type = "update" /\ m.interval = "1m") => ingested[k] = <<m.bar>>]_vars

\* C32 witness: the upstream channel delivered the candle of the second minute
\* after that of the first, and an update carrying it has just been sent.
C32_Witness ==
  \E m \in out :
    /\ m.type = "update"
    /\ m.interval = "1m"
    /\ ingested[<<SYMBOL, "1m">>] = <<m.bar>>
    /\ m.bar.time = 60000
    /\ Len(window) = 2

\* C34: the delivery of the 1m candle c sets currentCandle of every room to
\* the aggregate of the room's interval computed on the window that already
\* holds c (c itself for the 1m room) when there is one, keeps the room's
\* previous currentCandle when there is none, and changes no client set, no
\* lastBroadcast, no subscription and not the set of rooms.
C34_RefreshSeesIngest ==
  [][\A c \in UpstreamCandles(scope.candleTimes) :
       handleCandleUpdate(c) =>
         /\ window'[Len(window')] = c
         /\ DOMAIN rooms' = DOMAIN rooms
         /\ \A k \in DOMAIN rooms :
              LET r == getAggregatedCandle(window', k[2], now)
              IN /\ rooms'[k].currentCandle =
                      IF r # NoCandle THEN r ELSE rooms[k].currentCandle
                 /\ k[2] = "1m" => rooms'[k].currentCandle = c
                 /\ rooms'[k].clients = rooms[k].clients
                 /\ rooms'[k].lastBroadcast = rooms[k].lastBroadcast
         /\ subscriptions' = subscriptions]_vars

\* C34 witness: the candle delivered last is the tail of the window and lies
\* outside the current 5m bar, which holds no candle; the 5m room kept the
\* candle it had and the 1m room took the new one.
C34_Witness ==
  LET k1 == <<SYMBOL, "1m">>
      k5 == <<SYMBOL, "5m">>
  IN /\ k1 \in DOMAIN rooms /\ k5 \in DOMAIN rooms
     /\ window # <<>>
     /\ ingested[k5] = <<window[Len(window)]>>
     /\ getAggregatedCandle(window, "5m", now) = NoCandle
     /\ rooms[k5].currentCandle # NoCandle
     /\ rooms[k1].currentCandle = window[Len(window)]

\* C35: processOneMinuteCandle(symbol, c) replaces the tail of the window by
\* c, the length unchanged, when the tail has the time of c; otherwise it
\* appends c and, when the length then exceeds MAX_1M_CANDLES, evicts exactly
\* the head; every other candle keeps its value and its order.
C35_ProcessFrame ==
  probe.op = "process" =>
    LET b == probe.before
        c == probe.candle
        n == Len(b)
    IN IF n > 0 /\ b[n].time = c.time
       THEN /\ Len(window) = n
            /\ window[n] = c
            /\ \A i \in 1..(n - 1) : window[i] = b[i]
       ELSE IF n + 1 > MAX_1M_CANDLES
       THEN /\ Len(window) = n
            /\ window[n] = c
            /\ \A i \in 1..(n - 1) : window[i] = b[i + 1]
       ELSE /\ Len(window) = n + 1
            /\ window[n + 1] = c
            /\ \A i \in 1..n : window[i] = b[i]

\* C35 witness: a candle of a new minute was appended to a full window whose
\* head was evicted, the candle after the head now leading the window.
C35_Witness ==
  /\ probe.op = "process"
  /\ Len(probe.before) = MAX_1M_CANDLES
  /\ probe.before[Len(probe.before)].time # probe.candle.time
  /\ probe.before[1] # probe.before[2]
  /\ window[1] = probe.before[2]
  /\ window[Len(window)] = probe.candle

\* C36: when the history of a subscribe at an interval other than 1m has
\* been fetched, the subscribe starts the 1m fetch of 1440 bars exactly when
\* it finds the window empty, and then sends no initial message before that
\* fetch has returned and the window has been initialized from it; when it
\* finds the window non-empty it leaves the window as it is and sends the
\* initial message.
C36_LazyWarmupIffEmpty ==
  [][\A p \in BagToSet(pending) :
       p.interval # "1m" =>
         \A rows \in StoreResults(scope.candleTimes) :
           /\ HistoryResolve(p, rows) =>
                /\ window' = window
                /\ IF window = <<>>
                   THEN /\ out' = {}
                        /\ initials' = initials
                        /\ [p EXCEPT !.stage = "warmup", !.limit = WarmupLimit]
                             \in BagToSet(pending')
                   ELSE /\ BagToSet(pending') \subseteq BagToSet(pending)
                        /\ conn[p.client] = "open" =>
                             Msg(p.client, "initial", SYMBOL, p.interval, "", NoCandle)
                               \in out'
           /\ LazyWarmupResolve(p, rows) =>
                /\ window' = initializeCandles(rows)
                /\ conn[p.client] = "open" =>
                     Msg(p.client, "initial", SYMBOL, p.interval, "", NoCandle)
                       \in out']_vars

\* C36 witness: a 5m subscribe found the window empty and waits for the 1m
\* fetch of 1440 bars; its initial message has not been sent.
C36_Witness ==
  \E p \in BagToSet(pending) :
    /\ p.interval = "5m"
    /\ p.stage = "warmup"
    /\ p.limit = WarmupLimit
    /\ window = <<>>
    /\ conn[p.client] = "open"
    /\ initials[p.client][<<SYMBOL, "5m">>] = 0

\* C37: no step other than the delivery of an upstream candle removes from
\* the window a candle that the upstream channel delivered: after a startup
\* warmup, a lazy warmup or a 1m subscribe the window still holds every such
\* candle it held before.
C37_LiveCandlesKept ==
  [][(window' # window
      /\ ~(\E c \in UpstreamCandles(scope.candleTimes) : handleCandleUpdate(c)))
     => \A i \in DOMAIN window :
          window[i].time \in live =>
            \E j \in DOMAIN window' : window'[j].time = window[i].time]_vars

\* C38: a session is sent an initial or an update message of a room only
\* while the room key is in its subscriptions: between an unsubscribe that
\* was processed and the next subscribe of that room it is sent none, also
\* when a subscribe of the room was waiting for the store at the unsubscribe.
C38_UnsubscribedGetsNothing ==
  [][\A m \in out' :
       m.type \in {"initial", "update"} =>
         <<m.symbol, m.interval>> \in subscriptions'[m.to]]_vars

\* C39: every session in the client set of a room has the key of that room
\* in its subscriptions, so that removeClientFromAllRooms, which walks the
\* subscriptions, takes the session out of every room it is in.
C39_MembersHoldRoomKey ==
  /\ \A k \in DOMAIN rooms : \A s \in rooms[k].clients : k \in subscriptions[s]
  /\ \A s \in Sessions :
       \A k \in DOMAIN removeClientFromAllRooms(rooms, subscriptions, s).rooms :
         s \notin removeClientFromAllRooms(rooms, subscriptions, s).rooms[k].clients

\* C39 witness: a session that is in the client sets of two rooms, one of
\* which it shares, with a subscribe of its own still waiting for the store.
C39_Witness ==
  \E s \in Sessions :
    /\ Cardinality({k \in DOMAIN rooms : s \in rooms[k].clients}) = 2
    /\ \E k \in DOMAIN rooms : s \in rooms[k].clients /\ rooms[k].clients # {s}
    /\ \E p \in BagToSet(pending) : p.client = s

\* C40: a whale client that was sent a 'subscribed' confirmation for a valid
\* channel and has since neither sent an unsubscribe frame for it nor
\* disconnected is in channelSubscriptions for the mapped Redis channel, and
\* the Redis subscriber listens on that channel; and no subscribe is
\* answered with the error of the channel entry that disappeared during its
\* await.
C40_ConfirmedStaysRecorded ==
  /\ \A e \in confirmed :
       /\ e[2] \in DOMAIN channelSubscriptions
       /\ e[1] \in channelSubscriptions[e[2]]
       /\ e[2] \in redisChannels
  /\ \A m \in whaleOut : m.text # "Invalid message format"

====
